---- MODULE Spec2Model ----
(***************************************************************************)
(* Model of SteamDesktopFileGenerator: one run of the script scans         *)
(* <lib>/steamapps/common, and for every entry runs the asynchronous       *)
(* pipeline createDesktopFile -> installIcon -> downloadIcon ->            *)
(* getIconHash / extractIco -> writeFile.  Every `await` of the source is  *)
(* a step boundary; what runs synchronously between two awaits is one      *)
(* action.  The external tools (steamcmd, icotool), the network and the    *)
(* file system answer nondeterministically.                                *)
(***************************************************************************)
EXTENDS Integers, Sequences, FiniteSets, TLC

\* ------------------------------------------------------------------ bounds
NumEntries == 2
MaxRuns == 2

Entries == 1..NumEntries

\* ------------------------------------------------------------- input data
\* An id is the first line of steam_appid.txt: a string, modelled as a
\* sequence of digits; the empty string is <<>>.
EmptyId == << >>

\* The text of a marker file, as the lines fd.split('\n') yields.
MarkerText(n) == << <<n>>, << >> >>
EmptyMarkerText == << << >> >>

FileEntry == [isDir |-> FALSE, hasMarker |-> FALSE, fd |-> EmptyMarkerText]
NoMarkerEntry == [isDir |-> TRUE, hasMarker |-> FALSE, fd |-> EmptyMarkerText]
EmptyMarkerEntry == [isDir |-> TRUE, hasMarker |-> TRUE, fd |-> EmptyMarkerText]
MarkerEntry(n) == [isDir |-> TRUE, hasMarker |-> TRUE, fd |-> MarkerText(n)]

\* What entry e of steamapps/common can be: a plain file, a directory
\* without marker, a directory whose marker is empty, or a game directory
\* whose marker holds id e; entry 2 can also hold entry 1's id (two
\* directories with the same id).
EntryChoices(e) ==
    {FileEntry, NoMarkerEntry, EmptyMarkerEntry, MarkerEntry(e)}
        \cup (IF e = 2 THEN {MarkerEntry(1)} ELSE {})

\* fd.split('\n')[0]
FirstLine(fd) == fd[1]

\* ----------------------------------------------------- steamcmd's output
\* A stdout chunk is a sequence of lines; a line has a key, a quoted value
\* and a length in characters.
OtherLine == [key |-> "name", val |-> EmptyId, len |-> 2]
IconLine(h) == [key |-> "clienticon", val |-> h, len |-> 3]

\* The stdout chunks a steamcmd process for app id `id` can emit.  The
\* icon hash of an app is a function of its id; no app has the empty id,
\* and the regex's ([^"]+) matches no empty hash.
Chunks(id) ==
    IF id = EmptyId THEN { <<OtherLine>> }
    ELSE { <<OtherLine, IconLine(id)>>,
           <<IconLine(id)>>,
           <<OtherLine>> }

RECURSIVE LineStart(_, _)
\* Character offset at which line i of chunk str starts.
LineStart(str, i) ==
    IF i = 1 THEN 0 ELSE LineStart(str, i - 1) + str[i - 1].len + 1

Min(S) == CHOOSE x \in S : \A y \in S : x <= y
Max(S) == CHOOSE x \in S : \A y \in S : x >= y

\* steamcmdRegex.exec(str) for the regex /^\s*"clienticon"\s+"([^"]+)"\s*$/gm
\* whose lastIndex is `li`: the search starts at li, a match starts at a
\* line start, and the regex object keeps the end of the match as its new
\* lastIndex (0 after a failed search).
RegexExec(str, li) ==
    LET hits == {i \in 1..Len(str) :
                    str[i].key = "clienticon" /\ LineStart(str, i) >= li}
    IN  IF hits = {}
        THEN [found |-> FALSE, val |-> EmptyId, lastIndex |-> 0]
        ELSE LET i == Min(hits)
             IN  [found |-> TRUE, val |-> str[i].val,
                  lastIndex |-> LineStart(str, i) + str[i].len]

\* -------------------------------------------------------- icon candidates
\* A file name icotool leaves in the destination directory
\* (<name>_<n>_<W>x<H>x<D>.png), as steamIconRegex splits it.
Cand(w, h, d) == [width |-> w, height |-> h, bitdepth |-> d]

ExampleFiles == <<Cand(64, 64, 32), Cand(64, 64, 8), Cand(32, 16, 32)>>

\* The files icotool extracts from the .ico of an app: the .ico is
\* addressed by its hash, so its content is a function of the id.
IcoFiles(id) ==
    IF id = <<1>> THEN ExampleFiles
    ELSE IF id = <<2>> THEN <<Cand(32, 32, 32), Cand(64, 64, 32), Cand(16, 16, 8)>>
    ELSE <<Cand(32, 32, 8), Cand(32, 32, 8)>>

\* The hicolor directories <W>x<H>/apps that can exist on the system.
IconDirChoices == {{<<32, 32>>, <<64, 64>>, <<32, 16>>}}

\* Math.max(...sizes.map(v => v.bitdepth)); Math.max() is -Infinity.
HighestDepth(sizes) ==
    IF sizes = << >> THEN -1
    ELSE Max({sizes[i].bitdepth : i \in 1..Len(sizes)})

\* A variant of the filters without the squareness test.
PassesFiltersNoSquareTest(v, sizes) == v.bitdepth = HighestDepth(sizes)

\* The two `continue` filters of installIcon's loop.

PassesFilters(v, sizes) ==
    /\ v.height = v.width
    /\ v.bitdepth = HighestDepth(sizes)

\* existsSync(destPath) for steam_icon_<id>.png under <w>x<h>/apps.
DestExists(ics, v, id) ==
    \E f \in ics : f.w = v.width /\ f.h = v.height /\ f.id = id

\* ------------------------------------------------------------------ state
VARIABLES
    commonExists,   \* existsSync(steamCommonPath)
    dirEntries,     \* what readdir(steamCommonPath) and stat/readFile find
    iconDirs,       \* the <W>x<H>/apps directories under iconPath
    mainPc,         \* position of the module's top-level code
    running,        \* the node process is alive
    exitCode,       \* its exit status once it is not
    tmpDirs,        \* number of sdfg-* directories made by mkdtemp
    tmpFiles,       \* names inside this run's tmpDir
    icons,          \* steam_icon_<id>.png files under iconPath
    shortcuts,      \* <name>.desktop files under applicationPath
    lastIndex,      \* steamcmdRegex.lastIndex
    task,           \* per entry: the createDesktopFile call and its locals
    proc,           \* per entry: the spawned steamcmd process: "none",
                    \* "running", "drained" (its output delivered), "closed"
    run,            \* which run of the script this is
    prev            \* per entry: how the previous run's installIcon ended

vars == <<commonExists, dirEntries, iconDirs, mainPc, running, exitCode,
          tmpDirs, tmpFiles, icons, shortcuts, lastIndex, task, proc, run, prev>>

env == <<commonExists, dirEntries, iconDirs>>

NoHash == [state |-> "pending", val |-> EmptyId]

IdleTask ==
    [pc |-> "idle", id |-> EmptyId, hash |-> NoHash,
     ico |-> FALSE, sizes |-> << >>, idx |-> 0, succeeded |-> FALSE,
     outcome |-> "none", attempts |-> {}, overwrote |-> FALSE,
     clean |-> TRUE]

NoProc == "none"

NoPrev == [looped |-> FALSE, full |-> FALSE, clean |-> FALSE, succeeded |-> FALSE]

\* Icon files already installed before the first run.
\* A file records the image copied into it (src) and the run that wrote it
\* (gen, 0 before the first run).
IconChoices ==
    {{[w |-> 32, h |-> 32, id |-> <<2>>, src |-> Cand(32, 32, 32), gen |-> 0]}}

Init ==
    /\ commonExists \in BOOLEAN
    /\ dirEntries \in [Entries -> UNION {EntryChoices(e) : e \in Entries}]
    /\ \A e \in Entries : dirEntries[e] \in EntryChoices(e)
    /\ iconDirs \in IconDirChoices
    /\ icons \in IconChoices
    /\ mainPc = "start"
    /\ running = TRUE
    /\ exitCode = 0
    /\ tmpDirs = 0
    /\ tmpFiles = {}
    /\ shortcuts = {}
    /\ lastIndex = 0
    /\ task = [e \in Entries |-> IdleTask]
    /\ proc = [e \in Entries |-> NoProc]
    /\ run = 1
    /\ prev = [e \in Entries |-> NoPrev]

\* ---------------------------------------------------------------- helpers
Put(e, r) == task' = [task EXCEPT ![e] = r]

\* A rejection or exception that reaches createDesktopFile's catch.
Caught(t, why) == [t EXCEPT !.pc = "done", !.outcome = why]

\* mkdir(join(tmpDir, `${app_id}/`)) fails with EEXIST when the path exists;
\* for the empty id the path is tmpDir itself.
TmpDirEntry(id) == [kind |-> "dir", name |-> id]
TmpIcoEntry(h) == [kind |-> "ico", name |-> h]
MkdirTargetExists(id) == id = EmptyId \/ TmpDirEntry(id) \in tmpFiles

\* The loop body of installIcon for candidate v, up to the copy.
DirExists(v) == <<v.width, v.height>> \in iconDirs

\* A variant that copies without looking whether destPath exists.
AlwaysNeedsCopy(ics, v, sizes, id) ==
    PassesFilters(v, sizes) /\ DirExists(v)

\* copyFile is reached: both filters passed, iconDir exists, destPath
\* does not.

NeedsCopy(ics, v, sizes, id) ==
    PassesFilters(v, sizes) /\ DirExists(v) /\ ~DestExists(ics, v, id)

\* destPath exists: succeeded = true without a copy.
CountsExisting(ics, v, sizes, id) ==
    PassesFilters(v, sizes) /\ DirExists(v) /\ DestExists(ics, v, id)

\* Index of the first candidate from i on for which copyFile is awaited,
\* Len(sizes) + 1 when the loop runs to its end.
NextCopy(ics, sizes, i, id) ==
    LET S == {j \in i..Len(sizes) : NeedsCopy(ics, sizes[j], sizes, id)}
    IN  IF S = {} THEN Len(sizes) + 1 ELSE Min(S)

\* installIcon's loop from candidate i on, run until its next await (or
\* to `return succeeded`, where createDesktopFile goes on to writeFile).
LoopFrom(t, ics, i) ==
    LET j == NextCopy(ics, t.sizes, i, t.id)
        succ == t.succeeded
                  \/ \E k \in i..(j - 1) :
                        CountsExisting(ics, t.sizes[k], t.sizes, t.id)
    IN  IF j > Len(t.sizes)
        THEN [t EXCEPT !.pc = "writeFile", !.succeeded = succ,
                       !.sizes = << >>, !.idx = 0, !.attempts = {}]
        ELSE [t EXCEPT !.pc = "copyFile", !.succeeded = succ, !.idx = j,
                       !.attempts = @ \cup {t.sizes[j]}]

\* installIcon's loop ran to its end.
Looped(t) == t.pc = "writeFile" \/ (t.pc = "done" /\ t.outcome \in {"none", "write"})

\* `steam_icon_${game.id}` or "steam"
IconName(t) ==
    IF t.succeeded THEN [base |-> "steam_icon", id |-> t.id]
    ELSE [base |-> "steam", id |-> EmptyId]

\* The rendered desktop file of entry e.
DesktopFile(e, t) == [name |-> e, exec |-> t.id, icon |-> IconName(t)]

\* ---------------------------------------------------------------- actions
\* line 23: const tmpDir = await mkdtemp(...)
Mkdtemp ==
    /\ running /\ mainPc = "start"
    /\ tmpDirs' = tmpDirs + 1
    /\ tmpFiles' = {}
    /\ mainPc' = "createAllDesktops"
    /\ UNCHANGED <<env, running, exitCode, icons, shortcuts, lastIndex,
                   task, proc, run, prev>>

\* createAllDesktops, up to `await readdir`
CreateAllDesktops ==
    /\ running /\ mainPc = "createAllDesktops"
    /\ IF ~commonExists
       THEN /\ running' = FALSE
            /\ exitCode' = 1
            /\ mainPc' = "exited"
       ELSE /\ mainPc' = "readdir"
            /\ UNCHANGED <<running, exitCode>>
    /\ UNCHANGED <<env, tmpDirs, tmpFiles, icons, shortcuts, lastIndex,
                   task, proc, run, prev>>

\* readdir(steamCommonPath) settles; files.map starts createDesktopFile for
\* every name, each running up to its `await stat`.
ReaddirCommonDone(ok) ==
    /\ running /\ mainPc = "readdir"
    /\ IF ok
       THEN /\ mainPc' = "dispatched"
            /\ task' = [e \in Entries |->
                          [task[e] EXCEPT !.pc = "stat"]]
       ELSE /\ mainPc' = "scanFailed"
            /\ UNCHANGED task
    /\ UNCHANGED <<env, running, exitCode, tmpDirs, tmpFiles, icons,
                   shortcuts, lastIndex, proc, run, prev>>

\* stat settles: skip files and directories without marker, else readFile.
StatDone(e) ==
    /\ running /\ task[e].pc = "stat"
    /\ Put(e, IF ~dirEntries[e].isDir THEN [task[e] EXCEPT !.pc = "done", !.outcome = "notDirectory"]
              ELSE IF ~dirEntries[e].hasMarker THEN [task[e] EXCEPT !.pc = "done", !.outcome = "noMarker"]
              ELSE [task[e] EXCEPT !.pc = "readFile"])
    /\ UNCHANGED <<env, mainPc, running, exitCode, tmpDirs, tmpFiles, icons,
                   shortcuts, lastIndex, proc, run, prev>>

\* readFile settles: game.id is the first line; installIcon -> downloadIcon
\* -> getIconHash spawns steamcmd and awaits the promise.
ReadFileDone(e) ==
    /\ running /\ task[e].pc = "readFile"
    /\ LET id == FirstLine(dirEntries[e].fd)
       IN  /\ Put(e, [task[e] EXCEPT !.pc = "getIconHash", !.id = id])
           /\ proc' = [proc EXCEPT ![e] = "running"]
    /\ UNCHANGED <<env, mainPc, running, exitCode, tmpDirs, tmpFiles, icons,
                   shortcuts, lastIndex, run, prev>>

\* spawn fails (ENOENT, EAGAIN): the child emits 'error', for which
\* getIconHash registers no listener, so the event is thrown as an uncaught
\* exception and node exits with status 1.
SpawnError(e) ==
    /\ running /\ proc[e] = "running"
    /\ running' = FALSE
    /\ exitCode' = 1
    /\ UNCHANGED <<env, mainPc, tmpDirs, tmpFiles, icons, shortcuts,
                   lastIndex, task, proc, run, prev>>

\* command.stdout.on('data'): the shared regex is run on the chunk; a match
\* resolves the promise, and downloadIcon goes on to `await fetch`.
StdoutData(e, output) ==
    /\ running /\ proc[e] = "running"
    /\ LET r == RegexExec(output, lastIndex)
       IN  /\ lastIndex' = r.lastIndex
           /\ IF r.found /\ task[e].pc = "getIconHash"
              THEN Put(e, [task[e] EXCEPT !.pc = "fetch",
                              !.hash = [state |-> "hash", val |-> r.val]])
              ELSE UNCHANGED task
    /\ proc' = [proc EXCEPT ![e] = "drained"]
    /\ UNCHANGED <<env, mainPc, running, exitCode, tmpDirs, tmpFiles, icons,
                   shortcuts, run, prev>>

\* command.on('close'): a nonzero code rejects the promise, getIconHash
\* returns null, downloadIcon returns null and extractIco(null, ...) awaits
\* mkdir; a zero code does nothing.
Close(e, code) ==
    /\ running /\ proc[e] \in {"running", "drained"}
    /\ proc' = [proc EXCEPT ![e] = "closed"]
    /\ IF code # 0 /\ task[e].pc = "getIconHash"
       THEN Put(e, [task[e] EXCEPT !.pc = "mkdir",
                       !.hash = [state |-> "null", val |-> EmptyId]])
       ELSE UNCHANGED task
    /\ UNCHANGED <<env, mainPc, running, exitCode, tmpDirs, tmpFiles, icons,
                   shortcuts, lastIndex, run, prev>>

\* fetch settles: a 2xx response is piped to tmpDir/<hash>; another status
\* makes downloadIcon return null (extractIco(null, ...) then awaits mkdir);
\* a network error rejects.
FetchDone(e, res) ==
    /\ running /\ task[e].pc = "fetch"
    /\ Put(e, IF res = "ok" THEN [task[e] EXCEPT !.pc = "pipe"]
              ELSE IF res = "notOk" THEN [task[e] EXCEPT !.pc = "mkdir"]
              ELSE Caught(task[e], "fetch"))
    /\ UNCHANGED <<env, mainPc, running, exitCode, tmpDirs, tmpFiles, icons,
                   shortcuts, lastIndex, proc, run, prev>>

\* finished(...pipe(createWriteStream(dest, {flags: 'wx'}))) settles: the
\* stream fails when dest exists, else dest is the downloaded .ico.
PipeDone(e) ==
    /\ running /\ task[e].pc = "pipe"
    /\ IF TmpIcoEntry(task[e].hash.val) \in tmpFiles
       THEN /\ Put(e, Caught(task[e], "tmpFile"))
            /\ UNCHANGED tmpFiles
       ELSE /\ tmpFiles' = tmpFiles \cup {TmpIcoEntry(task[e].hash.val)}
            /\ Put(e, [task[e] EXCEPT !.pc = "mkdir", !.ico = TRUE])
    /\ UNCHANGED <<env, mainPc, running, exitCode, tmpDirs, icons,
                   shortcuts, lastIndex, proc, run, prev>>

\* extractIco: mkdir(dest) settles, then icotool is exec'ed.
MkdirDone(e) ==
    /\ running /\ task[e].pc = "mkdir"
    /\ IF MkdirTargetExists(task[e].id)
       THEN /\ Put(e, Caught(task[e], "mkdir"))
            /\ UNCHANGED tmpFiles
       ELSE /\ tmpFiles' = tmpFiles \cup {TmpDirEntry(task[e].id)}
            /\ Put(e, [task[e] EXCEPT !.pc = "icotool"])
    /\ UNCHANGED <<env, mainPc, running, exitCode, tmpDirs, icons,
                   shortcuts, lastIndex, proc, run, prev>>

\* The exec callback of icotool: an error rejects the awaited promise (the
\* `if (err) return []` after it is never reached), success goes on to
\* `await readdir(dest)`.
IcotoolDone(e, err) ==
    /\ running /\ task[e].pc = "icotool"
    /\ Put(e, IF err THEN Caught(task[e], "extract")
              ELSE [task[e] EXCEPT !.pc = "readdir"])
    /\ UNCHANGED <<env, mainPc, running, exitCode, tmpDirs, tmpFiles, icons,
                   shortcuts, lastIndex, proc, run, prev>>

\* readdir(dest) settles: the extracted files are the .ico's images, none
\* when the source was null; installIcon's loop then runs to its first await.
ReaddirDestDone(e) ==
    /\ running /\ task[e].pc = "readdir"
    /\ LET files == IF task[e].ico THEN IcoFiles(task[e].id) ELSE << >>
       IN  Put(e, LoopFrom([task[e] EXCEPT !.sizes = files], icons, 1))
    /\ UNCHANGED <<env, mainPc, running, exitCode, tmpDirs, tmpFiles, icons,
                   shortcuts, lastIndex, proc, run, prev>>

\* copyFile(v.path, destPath) settles; an error is swallowed by the stub
\* catch.  The loop then goes on with the next candidate.
CopyFileDone(e, ok) ==
    /\ running /\ task[e].pc = "copyFile"
    /\ LET t == task[e]
           v == t.sizes[t.idx]
           old == {f \in icons : f.w = v.width /\ f.h = v.height /\ f.id = t.id}
           ics == IF ok
                  THEN (icons \ old) \cup
                       {[w |-> v.width, h |-> v.height, id |-> t.id,
                         src |-> v, gen |-> run]}
                  ELSE icons
           t2 == IF ok
                 THEN [t EXCEPT !.succeeded = TRUE,
                                !.overwrote = @ \/ old # {}]
                 ELSE [t EXCEPT !.clean = FALSE]
       IN  /\ icons' = ics
           /\ Put(e, LoopFrom(t2, ics, t.idx + 1))
    /\ UNCHANGED <<env, mainPc, running, exitCode, tmpDirs, tmpFiles,
                   shortcuts, lastIndex, proc, run, prev>>

\* writeFile(<name>.desktop) settles; an error is logged.
WriteFileDone(e, ok) ==
    /\ running /\ task[e].pc = "writeFile"
    /\ IF ok
       THEN /\ shortcuts' = {s \in shortcuts : s.name # e}
                              \cup {DesktopFile(e, task[e])}
            /\ Put(e, [task[e] EXCEPT !.pc = "done"])
       ELSE /\ Put(e, Caught(task[e], "write"))
            /\ UNCHANGED shortcuts
    /\ UNCHANGED <<env, mainPc, running, exitCode, tmpDirs, tmpFiles, icons,
                   lastIndex, proc, run, prev>>

\* Something is still scheduled for entry e: an awaited operation or its
\* child process.  A promise nobody will settle keeps nothing alive.
Pending(e) ==
    \/ task[e].pc \in {"stat", "readFile", "fetch", "pipe", "mkdir",
                       "icotool", "readdir", "copyFile", "writeFile"}
    \/ proc[e] \in {"running", "drained"}

\* The event loop is empty after createAllDesktops returned: node exits 0.
Exit ==
    /\ running /\ mainPc \in {"dispatched", "scanFailed"}
    /\ \A e \in Entries : ~Pending(e)
    /\ running' = FALSE
    /\ exitCode' = 0
    /\ UNCHANGED <<env, mainPc, tmpDirs, tmpFiles, icons, shortcuts,
                   lastIndex, task, proc, run, prev>>

\* The script is started again on the same library: a new process, with
\* the file system as the previous run left it.
Rerun ==
    /\ ~running /\ exitCode = 0 /\ run < MaxRuns
    /\ run' = run + 1
    /\ prev' = [e \in Entries |->
                  [looped |-> Looped(task[e]), full |-> task[e].ico,
                   clean |-> task[e].clean, succeeded |-> task[e].succeeded]]
    /\ running' = TRUE
    /\ mainPc' = "start"
    /\ lastIndex' = 0
    /\ task' = [e \in Entries |-> IdleTask]
    /\ proc' = [e \in Entries |-> NoProc]
    /\ UNCHANGED <<env, exitCode, tmpDirs, tmpFiles, icons, shortcuts>>

Next ==
    \/ Mkdtemp
    \/ CreateAllDesktops
    \/ \E ok \in BOOLEAN : ReaddirCommonDone(ok)
    \/ \E e \in Entries : StatDone(e)
    \/ \E e \in Entries : ReadFileDone(e)
    \/ \E e \in Entries : SpawnError(e)
    \/ \E e \in Entries : \E output \in Chunks(task[e].id) : StdoutData(e, output)
    \/ \E e \in Entries : \E code \in {0, 1} : Close(e, code)
    \/ \E e \in Entries : \E res \in {"ok", "notOk", "error"} : FetchDone(e, res)
    \/ \E e \in Entries : PipeDone(e)
    \/ \E e \in Entries : MkdirDone(e)
    \/ \E e \in Entries : \E err \in BOOLEAN : IcotoolDone(e, err)
    \/ \E e \in Entries : ReaddirDestDone(e)
    \/ \E e \in Entries : \E ok \in BOOLEAN : CopyFileDone(e, ok)
    \/ \E e \in Entries : \E ok \in BOOLEAN : WriteFileDone(e, ok)
    \/ Exit

Spec == Init /\ [][Next]_vars

\* Reruns are explored for libraries in which one entry at most has a
\* marker file (the other entries are files or directories without it).
InitRerun ==
    /\ Init
    /\ \A e1, e2 \in Entries :
          dirEntries[e1].hasMarker /\ dirEntries[e2].hasMarker => e1 = e2

NextRerun == Next \/ Rerun

SpecRerun == InitRerun /\ [][NextRerun]_vars

\* ----------------------------------------------------------------- claims
\* The marker's id of entry e, and libraries of game directories with
\* distinct non-empty ids.
MarkerId(e) == FirstLine(dirEntries[e].fd)

IsGame(e) == dirEntries[e].isDir /\ dirEntries[e].hasMarker

DistinctGames ==
    /\ \A e \in Entries : IsGame(e) /\ MarkerId(e) # EmptyId
    /\ \A e1, e2 \in Entries : MarkerId(e1) = MarkerId(e2) => e1 = e2

HasShortcut(e) == \E s \in shortcuts : s.name = e /\ s.exec = MarkerId(e)

Fallback == [base |-> "steam", id |-> EmptyId]

\* The event loop ran empty after the scan dispatched the entries.
Exited == ~running /\ mainPc = "dispatched" /\ exitCode = 0

\* C1: for a library of N game directories with distinct ids, once the run
\* has ended there are exactly N shortcut files, one per directory with its
\* id in the Exec line, whatever the hash lookup, download, extraction and
\* copy steps did (only a failed write of the shortcut itself is excused).
C1_ExactlyNShortcuts ==
    (Exited /\ DistinctGames /\ \A e \in Entries : task[e].outcome # "write")
        => /\ \A e \in Entries : HasShortcut(e)
           /\ Cardinality(shortcuts) = NumEntries

\* C2: an entry whose hash lookup exited nonzero (getIconHash returned
\* null) still gets its shortcut, with Icon=steam, once its
\* createDesktopFile call has returned.
C2_HashFailureKeepsShortcut ==
    DistinctGames =>
        \A e \in Entries :
            (task[e].hash.state = "null" /\ task[e].pc = "done"
                /\ task[e].outcome # "write")
            => \E s \in shortcuts :
                  s.name = e /\ s.exec = MarkerId(e) /\ s.icon = Fallback

\* C3: when steamapps/common exists, a failure inside one entry stays
\* inside it: the exit status is 0, every scanned entry is attempted, and
\* when the process ends every entry has run to the end of its own
\* pipeline (or waits on its own hash lookup), with its shortcut written
\* when none of its own steps failed.
C3_FailuresStayInTheirEntry ==
    commonExists =>
        /\ ~running => exitCode = 0
        /\ mainPc = "dispatched" => \A e \in Entries : task[e].pc # "idle"
        /\ (~running /\ mainPc = "dispatched") =>
             \A e \in Entries :
                /\ task[e].pc \in {"done", "getIconHash"}
                /\ (task[e].pc = "done" /\ task[e].outcome = "none")
                      => HasShortcut(e)

\* C4: once the steamcmd process of an entry has closed, getIconHash has
\* returned: a hash or null, never still pending.
C4_SettledAfterClose ==
    \A e \in Entries : proc[e] = "closed" => task[e].hash.state # "pending"

\* Square, and of the greatest bitdepth among all the candidates `sizes`.
SquareAtMaxDepth(v, sizes) ==
    /\ v.width = v.height
    /\ \A i \in 1..Len(sizes) : sizes[i].bitdepth <= v.bitdepth

\* C5: every candidate handed to copyFile, and every icon file a run
\* installs, is square and of the maximum bitdepth over all extracted
\* candidates; of the candidates (64,64,32), (64,64,8), (32,16,32) only
\* (64,64,32) is ever copied.
C5_OnlySquareMaxDepthCopied ==
    /\ \A e \in Entries : \A v \in task[e].attempts :
          /\ SquareAtMaxDepth(v, task[e].sizes)
          /\ task[e].sizes = ExampleFiles => v = Cand(64, 64, 32)
    /\ \A f \in icons :
          f.gen >= 1 => /\ SquareAtMaxDepth(f.src, IcoFiles(f.id))
                        /\ f.w = f.src.width /\ f.h = f.src.height

\* C5 witness: the example candidates were extracted, the loop has ended
\* and (64,64,32) has been installed for that id.
C5_Witness ==
    \E e \in Entries :
        /\ IcoFiles(task[e].id) = ExampleFiles /\ task[e].ico
        /\ Looped(task[e])
        /\ \E f \in icons :
              f.id = task[e].id /\ f.gen >= 1 /\ f.src = Cand(64, 64, 32)

\* Entry e's extracted candidates include one that passes both filters and
\* whose destination file exists.
PlacedCandidate(e) ==
    \E i \in 1..Len(IcoFiles(task[e].id)) :
        LET v == IcoFiles(task[e].id)[i]
        IN  /\ SquareAtMaxDepth(v, IcoFiles(task[e].id))
            /\ \E f \in icons :
                  f.w = v.width /\ f.h = v.height /\ f.id = task[e].id

\* The previous run ended entry e's installIcon loop over the downloaded
\* candidates with no copy failing.
PrevComplete(e) ==
    run >= 2 /\ prev[e].looped /\ prev[e].full /\ prev[e].clean

\* C6, its state part: no copy replaced an existing file, an existing
\* destination counts as success, and after a completed run the next run
\* awaits no copy and ends with the same icon reference.
C6_State ==
    \A e \in Entries :
        /\ ~task[e].overwrote
        /\ (Looped(task[e]) /\ task[e].ico /\ PlacedCandidate(e))
              => task[e].succeeded
        /\ PrevComplete(e) =>
              /\ task[e].attempts = {}
              /\ (Looped(task[e]) /\ task[e].ico)
                    => task[e].succeeded = prev[e].succeeded
              /\ (task[e].pc = "done" /\ task[e].outcome = "none" /\ task[e].ico)
                    => \E s \in shortcuts :
                          /\ s.name = e
                          /\ s.icon = IconName([succeeded |-> prev[e].succeeded,
                                                id |-> task[e].id])

\* C6: an existing destination file is never copied over and keeps its
\* content, and counts as a success; a run that follows a run which
\* completed an entry's icon installation awaits no copyFile for it and
\* ends with the same icon reference in its shortcut.
C6_ExistingIconKeptAndCounted ==
    /\ []C6_State
    /\ [][\A f \in icons : f \in icons']_vars

\* C6 witness: in a second run, an entry whose icons the first run
\* installed has written its shortcut again, with the themed icon name.
C6_Witness ==
    \E e \in Entries :
        /\ PrevComplete(e) /\ prev[e].succeeded
        /\ task[e].pc = "done" /\ task[e].outcome = "none" /\ task[e].ico
        /\ \E s \in shortcuts :
              s.name = e /\ s.icon = [base |-> "steam_icon", id |-> task[e].id]
        /\ \A f \in icons : f.gen < run

\* C7: an entry whose marker yields the empty id is skipped: no steamcmd
\* is spawned for it and no shortcut is written for it, and every shortcut
\* has a non-empty id in its Exec line.
C7_EmptyIdSkipped ==
    /\ \A e \in Entries :
          (IsGame(e) /\ MarkerId(e) = EmptyId)
             => /\ proc[e] = "none"
                /\ ~\E s \in shortcuts : s.name = e
    /\ \A s \in shortcuts : s.exec # EmptyId

\* C8: without steamapps/common the process exits nonzero and nothing is
\* written: no shortcut, no icon, nothing in the temporary directory
\* location.
C8_InvalidRootWritesNothing ==
    ~commonExists =>
        /\ ~running => exitCode # 0
        /\ shortcuts = {}
        /\ \A f \in icons : f.gen = 0
        /\ tmpDirs = 0
        /\ tmpFiles = {}

\* C9: an entry whose icotool run exited nonzero still gets its shortcut,
\* with Icon=steam (extractIco having returned no candidates), unless the
\* write of the shortcut itself failed.
C9_ExtractionFailureKeepsShortcut ==
    \A e \in Entries :
        (task[e].pc = "done" /\ task[e].outcome = "extract")
            => \E s \in shortcuts :
                  s.name = e /\ s.exec = task[e].id /\ s.icon = Fallback

\* C10: whatever the other calls' chunks did to the shared regex, a chunk
\* delivered to a getIconHash call that is still waiting is searched as
\* by a fresh regex: if it holds the clienticon line, the call returns
\* that hash.
C10_ChunksSearchedIndependently ==
    [][\A e \in Entries : \A output \in Chunks(task[e].id) :
          (DistinctGames /\ StdoutData(e, output)
              /\ task[e].pc = "getIconHash" /\ RegexExec(output, 0).found)
          => task'[e].hash = [state |-> "hash",
                              val |-> RegexExec(output, 0).val]]_vars

====
